---- MODULE Spec2Model ----
(***************************************************************************)
(* The SEBI scraper of "Task-2 by Aarthi mam/new_main.py": SEBIScraper.run *)
(* drives scrape_folder_page over the configured folders and download_pdf  *)
(* over each folder's accepted entries.  Strings are modelled as sequences *)
(* of tokens (a token is a run of characters the code never splits), so    *)
(* that endswith, startswith, split, the file-name sanitizer and strptime  *)
(* act on them as the code does.  The web site, the network and the file   *)
(* system are the environment: what a fetch returns, and whether an open() *)
(* raises, is chosen nondeterministically at the step that asks.           *)
(***************************************************************************)
EXTENDS Integers, Sequences, FiniteSets, TLC

(* ------------------------------ bounds -------------------------------- *)

\* largest page count a listing's first page announces
MaxPages == 2
\* most data rows after the header on one listing page
MaxRows == 2
\* the count of consecutive failed requests of one listing page saturates here
MaxFails == 3

(* ------------------------- program constants -------------------------- *)

\* the configured folders, in dict order (a prefix of folder_urls)
FolderNames == <<"Legal", "Rules">>

base_url == "https://www.sebi.gov.in"
attachdocs_dir == "/sebi_data/attachdocs/"
\* attachdocs_base is base_url followed by attachdocs_dir
attachdocs_base == <<base_url, attachdocs_dir>>

\* cutoff_date = "2023-01-01", as y*10000 + m*100 + d
CutoffInstant == 20230101
\* Python's None where a datetime or an int is expected
None == 0 - 1

max_retries == 3
items_per_page == 10
ErrorDelay == 5
PageDelay == 2
DownloadDelay == 2

(* ------------------------------ strings ------------------------------- *)

Last(s) == s[Len(s)]

\* s.endswith(tok)
EndsWith(s, tok) == Len(s) > 0 /\ Last(s) = tok

\* the index of the last occurrence of tok in s, 0 when absent
LastIndexOf(s, tok) ==
    LET I == {i \in 1..Len(s) : s[i] = tok}
    IN  IF I = {} THEN 0 ELSE CHOOSE i \in I : \A j \in I : j <= i

\* s.split(tok)[-1]
AfterLast(s, tok) == SubSeq(s, LastIndexOf(s, tok) + 1, Len(s))

\* tokens made of alphanumeric characters only
AlnumTokens == {"a", "b", "pdf", "NA", "Jan", "January",
                "01", "12", "31", "2022", "2023"}
\* the characters download_pdf keeps besides the alphanumeric ones
AllowedPunct == {" ", "-", "_", "."}

(* ------------------------------- URLs --------------------------------- *)

\* url.startswith('http')
StartsWithHttp(u) == Len(u) > 0 /\ Head(u) \in {base_url, "http://["}

\* a reference whose first token is a path from the site root
IsRooted(u) == Len(u) > 0 /\ Head(u) \in {attachdocs_dir, "/legal/"}

\* urllib's urlsplit raises ValueError on a netloc with an unmatched bracket
UrlRaises(u) == Len(u) > 0 /\ Head(u) = "http://["

\* urljoin(base, ref) for base = <<host, directory>>, ref not raising
urljoin(base, ref) ==
    IF ref = <<>> THEN base
    ELSE IF StartsWithHttp(ref) THEN ref
    ELSE IF IsRooted(ref) THEN <<Head(base)>> \o ref
    ELSE base \o ref

fix_pdf_url(pdf_url) ==
    IF pdf_url = <<>> THEN <<>>
    ELSE IF StartsWithHttp(pdf_url) THEN pdf_url
    ELSE IF Head(pdf_url) = attachdocs_dir THEN urljoin(<<base_url>>, pdf_url)
    ELSE IF Head(pdf_url) = "sebi_data/attachdocs/"
         THEN urljoin(<<base_url>>, <<attachdocs_dir>> \o Tail(pdf_url))
    ELSE urljoin(attachdocs_base, pdf_url)

\* document references the site serves
RefA == <<attachdocs_dir, "a", ".pdf">>
RefB == <<"sebi_data/attachdocs/", "a", ".pdf">>
RefC == <<"a", ".pdf">>
RefQ == <<attachdocs_dir, "b", ".pdf", "&zoom=1">>
UrlA == <<base_url, attachdocs_dir, "a", ".pdf">>
UrlQ == <<base_url, attachdocs_dir, "b", ".pdf", "&zoom=1">>

(* ------------------------- intermediate pages ------------------------- *)

\* what session.get(html_url) and BeautifulSoup give extract_pdf_from_iframe:
\* raises: the request raised; iframe: the first iframe's src (<<>>: none);
\* anchors: the hrefs of the anchors; matches: re.findall's result on the text
HtmlPages ==
    { [raises |-> TRUE,  iframe |-> <<>>, anchors |-> <<>>, matches |-> <<>>],
      [raises |-> FALSE, iframe |-> <<>>, anchors |-> <<>>, matches |-> <<>>],
      [raises |-> FALSE, iframe |-> <<"/web/", "viewer.html", "?", "file=">> \o RefA,
                         anchors |-> <<>>, matches |-> <<>>],
      [raises |-> FALSE, iframe |-> <<"/web/", "viewer.html", "?", "file=">> \o RefQ,
                         anchors |-> <<>>, matches |-> <<>>],
      [raises |-> FALSE, iframe |-> RefB, anchors |-> <<>>, matches |-> <<>>],
      [raises |-> FALSE, iframe |-> <<"/web/", "blank.html">>,
                         anchors |-> <<<<"/legal/", "x", ".html">>, RefC>>,
                         matches |-> <<RefB>>],
      [raises |-> FALSE, iframe |-> <<>>, anchors |-> <<>>, matches |-> <<RefB>>],
      [raises |-> FALSE, iframe |-> <<"/web/", "viewer.html", "?", "file=">>,
                         anchors |-> <<RefC>>, matches |-> <<>>] }

\* soup.find_all('a', href=re.compile(r'\.pdf$'))
PdfAnchors(anchors) == SelectSeq(anchors, LAMBDA h : EndsWith(h, ".pdf"))

extract_pdf_from_iframe(p) ==
    IF p.raises THEN <<>>
    ELSE IF p.iframe # <<>> /\ LastIndexOf(p.iframe, "file=") > 0
         THEN fix_pdf_url(AfterLast(p.iframe, "file="))
    ELSE IF p.iframe # <<>> /\ EndsWith(p.iframe, ".pdf")
         THEN fix_pdf_url(p.iframe)
    ELSE IF PdfAnchors(p.anchors) # <<>>
         THEN fix_pdf_url(Head(PdfAnchors(p.anchors)))
    ELSE IF p.matches # <<>> THEN fix_pdf_url(Head(p.matches))
    ELSE <<>>

(* ------------------------------- dates -------------------------------- *)

NumVal == [t \in {"01", "12", "31", "2022", "2023"} |->
             CASE t = "01" -> 1 [] t = "12" -> 12 [] t = "31" -> 31
               [] t = "2022" -> 2022 [] t = "2023" -> 2023]

IsDay(t)   == t \in {"01", "12", "31"}
IsMonth(t) == t \in {"01", "12"}
IsYear(t)  == t \in {"2022", "2023"}
MonthAbbr  == [t \in {"Jan"} |-> 1]
MonthFull  == [t \in {"January"} |-> 1]

Instant(y, m, d) == y * 10000 + m * 100 + d

\* date_str.strip()
Strip(s) ==
    LET a == IF Len(s) > 0 /\ Head(s) = " " THEN Tail(s) ELSE s
    IN  IF Len(a) > 0 /\ Last(a) = " " THEN SubSeq(a, 1, Len(a) - 1) ELSE a

\* datetime.strptime(s, fmt) for the six formats, None for ValueError
Strptime(s, fmt) ==
    CASE fmt = "%d-%m-%Y" ->
           IF Len(s) = 5 /\ s[2] = "-" /\ s[4] = "-"
              /\ IsDay(s[1]) /\ IsMonth(s[3]) /\ IsYear(s[5])
           THEN Instant(NumVal[s[5]], NumVal[s[3]], NumVal[s[1]]) ELSE None
      [] fmt = "%Y-%m-%d" ->
           IF Len(s) = 5 /\ s[2] = "-" /\ s[4] = "-"
              /\ IsYear(s[1]) /\ IsMonth(s[3]) /\ IsDay(s[5])
           THEN Instant(NumVal[s[1]], NumVal[s[3]], NumVal[s[5]]) ELSE None
      [] fmt = "%d/%m/%Y" ->
           IF Len(s) = 5 /\ s[2] = "/" /\ s[4] = "/"
              /\ IsDay(s[1]) /\ IsMonth(s[3]) /\ IsYear(s[5])
           THEN Instant(NumVal[s[5]], NumVal[s[3]], NumVal[s[1]]) ELSE None
      [] fmt = "%b %d, %Y" ->
           IF Len(s) = 6 /\ s[2] = " " /\ s[4] = "," /\ s[5] = " "
              /\ s[1] \in DOMAIN MonthAbbr /\ IsDay(s[3]) /\ IsYear(s[6])
           THEN Instant(NumVal[s[6]], MonthAbbr[s[1]], NumVal[s[3]]) ELSE None
      [] fmt = "%B %d, %Y" ->
           IF Len(s) = 6 /\ s[2] = " " /\ s[4] = "," /\ s[5] = " "
              /\ s[1] \in DOMAIN MonthFull /\ IsDay(s[3]) /\ IsYear(s[6])
           THEN Instant(NumVal[s[6]], MonthFull[s[1]], NumVal[s[3]]) ELSE None
      [] fmt = "%Y" ->
           IF Len(s) = 1 /\ IsYear(s[1])
           THEN Instant(NumVal[s[1]], 1, 1) ELSE None

date_formats == <<"%d-%m-%Y", "%Y-%m-%d", "%d/%m/%Y", "%b %d, %Y", "%B %d, %Y", "%Y">>

\* the first format that parses wins; a year-only string is already 1 January
parse_date(date_str) ==
    LET ok == {i \in 1..Len(date_formats) :
                  Strptime(Strip(date_str), date_formats[i]) # None}
    IN  IF ok = {} THEN None
        ELSE Strptime(Strip(date_str),
                      date_formats[CHOOSE i \in ok : \A j \in ok : i <= j])

is_after_cutoff_strict(date_str, cutoff) ==
    IF cutoff = None THEN TRUE
    ELSE IF parse_date(date_str) # None THEN parse_date(date_str) > cutoff
    ELSE TRUE

is_after_cutoff(date_str, cutoff) ==
    IF cutoff = None THEN TRUE
    ELSE IF parse_date(date_str) # None THEN parse_date(date_str) >= cutoff
    ELSE TRUE

\* the issue dates the listing rows carry
DateOld  == <<"31", "-", "12", "-", "2022">>
DateCut  == <<"2023", "-", "01", "-", "01">>
DateJunk == <<"NA">>


(* --------------------------- listing pages ---------------------------- *)

\* the anchors of the dataTables_paginate div: the data-dt-idx of each, None
\* for an anchor without the attribute
LinkLists ==
    {<<>>} \cup {<<a>> : a \in {None} \cup 1..MaxPages}
           \cup {<<a, b>> : a \in {None} \cup 1..MaxPages, b \in {None} \cup 1..MaxPages}

\* what get_total_pages reads in the first page: the N of "of N entries" in the
\* dataTables_info div (None: no div, or no match), whether there is a
\* dataTables_paginate div, and its anchors
Soups ==
    [entries : {None} \cup 0..(items_per_page * MaxPages),
     paginate : {FALSE}, links : {<<>>}]
    \cup [entries : {None} \cup 0..(items_per_page * MaxPages),
          paginate : {TRUE}, links : LinkLists]

\* pagination.find_all('a')[-1] raises IndexError on an empty list and the
\* handler returns 1
get_total_pages(soup) ==
    IF soup.entries # None THEN (soup.entries + 9) \div 10
    ELSE IF soup.paginate /\ soup.links # <<>> /\ Last(soup.links) # None
         THEN Last(soup.links)
    ELSE 1

\* the document names the listing rows carry
NameA  == <<"a">>
NameAS == <<"a", "/">>

\* the hrefs of the anchors of the listing rows; <<>>: the cell has no anchor
RefHtml  == <<"/legal/", "x", ".html">>
RefOther == <<"/legal/", "x", ".aspx">>
RefBad   == <<"http://[", "x", ".pdf">>
Hrefs == {<<>>, RefA, UrlA, RefHtml, RefOther, RefBad}

\* the texts of cell 0 and cell 1 of the listing rows
Labels == {<<DateCut, NameA>>, <<DateCut, NameAS>>, <<DateOld, NameA>>,
           <<DateJunk, NameA>>}

\* a data row: the number of its td cells, the text of cell 0 and of cell 1,
\* and the href of the anchor of cell 1
Rows == {[cells |-> 1, date |-> DateCut, name |-> NameA, href |-> <<>>]}
        \cup {[cells |-> 2, date |-> l[1], name |-> l[2], href |-> h] :
                 l \in Labels, h \in Hrefs}

\* the position of a folder in the configured order
FolderIdx(name) == CHOOSE i \in 1..Len(FolderNames) : FolderNames[i] = name

(* ----------------------------- file names ----------------------------- *)

\* f"{pdf_name}_{issue_date}.pdf"
FileName(pdf_name, issue_date) == pdf_name \o <<"_">> \o issue_date \o <<".", "pdf">>

\* "".join(c for c in file_name if c.isalnum() or c in (' ', '-', '_', '.'))
Sanitize(file_name) ==
    SelectSeq(file_name, LAMBDA t : t \in AlnumTokens \cup AllowedPunct)

\* os.path.join('downloaded_data', folder_name, file_name)
FilePath(folder_name, file_name) == <<folder_name, Sanitize(file_name)>>

(* ------------------------------- state -------------------------------- *)

VARIABLES
    pc,            \* the statement the run is at
    cutoff_date,   \* self.cutoff_date
    fi,            \* the index in FolderNames of the folder of run's for loop
    page,          \* scrape_folder_page: page
    total_pages,   \* scrape_folder_page: total_pages
    nrows,         \* the number of data rows of the page being processed
    ri,            \* the index of the row the for loop is at
    pageFails,      \* consecutive failed requests of the current page (saturating)
    delay,         \* the seconds of the time.sleep the run is in, 0 when in none
    pdf_entries,   \* scrape_folder_page's list, then run's pdf_entries
    seen_pdfs,     \* run: seen_pdfs
    manifest,      \* the data rows written to pdf_links.csv
    files,         \* the files under downloaded_data: path and the URL of the bytes
    metas,         \* the .meta sidecars: path of the file and the source URL recorded
    di,            \* the index in pdf_entries of run's inner for loop
    attempt,       \* download_pdf: attempt
    call,          \* the current (or last) download_pdf call
    dlLog,         \* the entries download_pdf was called for, in call order
    lastRow,       \* the last row the for loop handled: its date, the decision of
                   \* is_after_cutoff, and the document URL it led to (<<>>: none)
    g_pc,          \* ms_graph.py: the statement main() is at
    env,           \* Config.APPLICATION_ID and Config.CLIENT_SECRET
    pdf_folder,    \* the files of Config.PDF_FOLDER: name and content
    folder0,       \* the files of Config.PDF_FOLDER when main() began
    backup_folder, \* the files of Config.BACKUP_FOLDER
    todo,          \* the names of os.listdir(Config.PDF_FOLDER) not yet iterated
    cur,           \* process_pdfs: filename and client_name of the iteration
    ren,           \* the current (or last) rename_pdf call
    urls,          \* process_pdfs: the keys of urls
    excel,         \* the client names whose url cell update_excel has saved
    did,           \* the kinds of work main() has done so far
    fn,            \* the function applied last, "none" before any
    arg,           \* its arguments
    out            \* its return value

\* the variables of new_main.py's run
scraperVars == <<pc, cutoff_date, fi, page, total_pages, nrows, ri, pageFails, delay,
                 pdf_entries, seen_pdfs, manifest, files, metas, di, attempt, call,
                 dlLog, lastRow>>

\* the variables of ms_graph.py's main
graphVars == <<g_pc, env, pdf_folder, folder0, backup_folder, todo, cur, ren, urls,
               excel, did>>

\* the variables of a function applied on its own
fnVars == <<fn, arg, out>>

\* what a run of new_main.py leaves alone
otherVars == <<graphVars, fnVars>>

vars == <<scraperVars, graphVars, fnVars>>

scrapeVars == <<page, total_pages, nrows, ri, pageFails, lastRow>>
outVars    == <<seen_pdfs, manifest>>
diskVars   == <<files, metas>>
dlVars     == <<attempt, call, dlLog>>

NoRow == [date |-> <<>>, pass |-> TRUE, url |-> <<>>]

NoCall == [url |-> <<>>, path |-> <<>>, existed |-> FALSE, fetches |-> 0,
           fails |-> 0, okFetch |-> FALSE, mismatch |-> FALSE, sleeps |-> <<>>,
           result |-> "none", files0 |-> {}, metas0 |-> {}]

NoFile == [name |-> <<>>, client |-> <<>>]

NoRename == [old |-> <<>>, client |-> <<>>, before |-> {}, result |-> <<>>]

\* ms_graph.py is not running
GraphOff ==
    /\ g_pc = "off"
    /\ env = [APPLICATION_ID |-> "", CLIENT_SECRET |-> ""]
    /\ pdf_folder = {}
    /\ folder0 = {}
    /\ backup_folder = {}
    /\ todo = {}
    /\ cur = NoFile
    /\ ren = NoRename
    /\ urls = {}
    /\ excel = {}
    /\ did = {}

\* no function is applied on its own
FnOff == fn = "none" /\ arg = <<>> /\ out = <<>>

Init ==
    /\ pc = "folder"
    /\ cutoff_date \in {None, CutoffInstant}
    /\ fi = 1
    /\ page = 1
    /\ total_pages = 1
    /\ nrows = 0
    /\ ri = 0
    /\ pageFails = 0
    /\ delay = 0
    /\ pdf_entries = <<>>
    /\ seen_pdfs = {}
    /\ manifest = <<>>
    /\ files = {}
    /\ metas = {}
    /\ di = 1
    /\ attempt = 0
    /\ call = NoCall
    /\ dlLog = <<>>
    /\ lastRow = NoRow
    /\ GraphOff
    /\ FnOff

(* --------------------------- scrape_folder_page ----------------------- *)

Min(a, b) == IF a < b THEN a ELSE b

\* entry = [folder_name, pdf_name, issue_date, pdf_url]
Entry(folder_name, r, pdf_url) ==
    [folder |-> folder_name, pdf_name |-> r.name, issue_date |-> r.date,
     pdf_url |-> pdf_url]

NotSeenNever(url, seen) == TRUE

\* pdf_url not in seen_pdfs
NotSeen(url, seen) == url \notin seen

AppendFront(entries, entry) == <<entry>> \o entries

\* pdf_entries.append(entry), filings_writer.writerow(entry)
AppendEntry(entries, entry) == Append(entries, entry)

\* run's for loop takes the next folder and scrape_folder_page begins; after the
\* last folder the with block ends and run returns
StartFolder ==
    /\ pc = "folder"
    /\ IF fi > Len(FolderNames)
       THEN pc' = "done" /\ UNCHANGED <<pdf_entries, page>>
       ELSE pc' = "first_fetch" /\ pdf_entries' = <<>> /\ page' = 1
    /\ UNCHANGED <<cutoff_date, otherVars, fi, total_pages, nrows, ri, pageFails, lastRow, delay, di>>
    /\ UNCHANGED <<outVars, diskVars, dlVars>>

\* scrape_folder_page returns entries to run; its locals are gone, page and
\* total_pages staying as the record of where it returned until the download
\* loop takes its first step
ScrapeReturns(entries) ==
    /\ pdf_entries' = entries
    /\ di' = 1
    /\ pc' = "dl_loop"
    /\ UNCHANGED <<page, total_pages>>
    /\ nrows' = 0
    /\ ri' = 0
    /\ pageFails' = 0
    /\ lastRow' = NoRow
    /\ delay' = 0

\* the request of the first page that determines total_pages; when it raises,
\* the outer handler returns []
FirstFetch ==
    /\ pc = "first_fetch"
    /\ \/ ScrapeReturns(<<>>)
       \/ \E soup \in Soups :
            /\ total_pages' = get_total_pages(soup)
            /\ pc' = "loop"
            /\ UNCHANGED <<pdf_entries, di, page, nrows, ri, pageFails, lastRow, delay>>
    /\ UNCHANGED <<cutoff_date, otherVars, fi, outVars, diskVars, dlVars>>

\* while page <= total_pages; return pdf_entries when it ends
LoopTest ==
    /\ pc = "loop"
    /\ IF page <= total_pages
       THEN pc' = "fetch" /\ UNCHANGED <<scrapeVars, pdf_entries, di, delay>>
       ELSE ScrapeReturns(pdf_entries)
    /\ UNCHANGED <<cutoff_date, otherVars, fi, outVars, diskVars, dlVars>>

FetchPageSkipsEmpty ==
    /\ pc = "fetch"
    /\ \/ /\ pc' = "err_sleep"
          /\ delay' = ErrorDelay
          /\ pageFails' = Min(pageFails + 1, MaxFails)
          /\ UNCHANGED <<page, total_pages, nrows, ri, lastRow, pdf_entries, di>>
       \/ /\ page' = page + 1
          /\ pageFails' = 0
          /\ pc' = "loop"
          /\ UNCHANGED <<total_pages, nrows, ri, lastRow, pdf_entries, di, delay>>
       \/ \E n \in 1..MaxRows :
            /\ nrows' = n
            /\ ri' = 1
            /\ pc' = "rows"
            /\ pageFails' = 0
            /\ UNCHANGED <<page, total_pages, lastRow, pdf_entries, di, delay>>
    /\ UNCHANGED <<cutoff_date, otherVars, fi, outVars, diskVars, dlVars>>

\* session.get(paginated_url), raise_for_status, the table and its rows
FetchPage ==
    /\ pc = "fetch"
    /\ \/ \* requests.RequestException
          /\ pc' = "err_sleep"
          /\ delay' = ErrorDelay
          /\ pageFails' = Min(pageFails + 1, MaxFails)
          /\ UNCHANGED <<page, total_pages, nrows, ri, lastRow, pdf_entries, di>>
       \/ \* no table, or no row after the header: break
          ScrapeReturns(pdf_entries)
       \/ \E n \in 1..MaxRows :
            /\ nrows' = n
            /\ ri' = 1
            /\ pc' = "rows"
            /\ pageFails' = 0
            /\ UNCHANGED <<page, total_pages, lastRow, pdf_entries, di, delay>>
    /\ UNCHANGED <<cutoff_date, otherVars, fi, outVars, diskVars, dlVars>>

\* except requests.RequestException: time.sleep(5); continue
ErrSleep ==
    /\ pc = "err_sleep"
    /\ delay' = 0
    /\ pc' = "loop"
    /\ UNCHANGED <<cutoff_date, otherVars, fi, scrapeVars, pdf_entries, di>>
    /\ UNCHANGED <<outVars, diskVars, dlVars>>

\* the for loop goes to the next row, or page += 1 and time.sleep(2) begins
Advance ==
    /\ IF ri < nrows
       THEN /\ ri' = ri + 1
            /\ pc' = "rows"
            /\ UNCHANGED <<page, pageFails, delay>>
       ELSE /\ page' = page + 1
            /\ pageFails' = 0
            /\ delay' = PageDelay
            /\ pc' = "page_sleep"
            /\ UNCHANGED ri
    /\ UNCHANGED <<total_pages, nrows, di>>

\* the row is left out: continue
Skip(decided) ==
    /\ lastRow' = decided
    /\ Advance
    /\ UNCHANGED <<outVars, pdf_entries>>

\* the row is taken: seen_pdfs.add, writerow, pdf_entries.append
Accept(entry, decided) ==
    /\ lastRow' = decided
    /\ seen_pdfs' = seen_pdfs \cup {entry.pdf_url}
    /\ manifest' = AppendEntry(manifest, entry)
    /\ pdf_entries' = AppendEntry(pdf_entries, entry)
    /\ Advance

\* one iteration of for row in rows
ProcessRow ==
    /\ pc = "rows"
    /\ \E r \in Rows :
         LET pass    == is_after_cutoff(r.date, cutoff_date)
             decided == [date |-> r.date, pass |-> pass, url |-> <<>>]
         IN  IF r.cells <= 1 THEN Skip(NoRow)
             ELSE IF ~pass \/ r.href = <<>> THEN Skip(decided)
             ELSE IF UrlRaises(r.href)
             THEN \* urljoin raises ValueError: the outer handler returns []
                  ScrapeReturns(<<>>) /\ UNCHANGED outVars
             ELSE LET original_url == urljoin(<<base_url>>, r.href)
                  IN  IF EndsWith(original_url, ".html")
                      THEN \E pdf_url \in {extract_pdf_from_iframe(p) : p \in HtmlPages} :
                             IF pdf_url # <<>> /\ NotSeen(pdf_url, seen_pdfs)
                             THEN Accept(Entry(FolderNames[fi], r, pdf_url),
                                         [decided EXCEPT !.url = pdf_url])
                             ELSE Skip([decided EXCEPT !.url = pdf_url])
                      ELSE IF EndsWith(original_url, ".pdf")
                      THEN IF NotSeen(original_url, seen_pdfs)
                           THEN Accept(Entry(FolderNames[fi], r, original_url),
                                       [decided EXCEPT !.url = original_url])
                           ELSE Skip([decided EXCEPT !.url = original_url])
                      ELSE Skip(decided)
    /\ UNCHANGED <<cutoff_date, otherVars, fi, diskVars, dlVars>>

\* time.sleep(2) between pages
PageSleep ==
    /\ pc = "page_sleep"
    /\ delay' = 0
    /\ lastRow' = NoRow
    /\ pc' = "loop"
    /\ UNCHANGED <<cutoff_date, otherVars, fi, page, total_pages, nrows, ri, pageFails>>
    /\ UNCHANGED <<pdf_entries, di, outVars, diskVars, dlVars>>

(* ----------------------- run's download loop -------------------------- *)

\* the entries of the folder are exhausted: the outer for loop goes on
NextFolder ==
    /\ pc = "dl_loop"
    /\ di > Len(pdf_entries)
    /\ fi' = fi + 1
    /\ pdf_entries' = <<>>
    /\ di' = 1
    /\ pc' = "folder"
    /\ page' = 1
    /\ total_pages' = 1
    /\ UNCHANGED <<cutoff_date, otherVars, nrows, ri, pageFails, lastRow, delay>>
    /\ UNCHANGED <<outVars, diskVars, dlVars>>

(* ----------------------------- download_pdf --------------------------- *)

ExistsNever(path, disk) == FALSE

\* os.path.exists(file_path)
os_path_exists(path, disk) == \E f \in disk : f.path = path

\* open(path, 'w') truncates or creates the file, write puts the bytes
Written(disk, path, src) ==
    {f \in disk : f.path # path} \cup {[path |-> path, src |-> src]}

BackoffLinear(a) == 2 * a

\* time.sleep(2 ** attempt)
BackoffDelay(a) == 2 ^ a

IsPdfAlways(content_type, pdf_url) == TRUE

\* 'application/pdf' in content_type or pdf_url.endswith('.pdf')
IsPdfResponse(content_type, pdf_url) ==
    content_type = "application/pdf" \/ EndsWith(pdf_url, ".pdf")

\* download_pdf returns: its locals are gone and run sleeps before the next entry
Return(c, res) ==
    /\ call' = [c EXCEPT !.result = res]
    /\ attempt' = 0
    /\ pc' = "dl_sleep"
    /\ delay' = DownloadDelay

\* run calls download_pdf for pdf_entries[di]: the folder is made, the name is
\* sanitized, an existing file ends the call, and so does an empty URL
DlStart ==
    /\ pc = "dl_loop"
    /\ di <= Len(pdf_entries)
    /\ LET e    == pdf_entries[di]
           path == FilePath(e.folder, FileName(e.pdf_name, e.issue_date))
           url  == fix_pdf_url(e.pdf_url)
           c    == [NoCall EXCEPT !.url = url, !.path = path,
                                  !.existed = (\E f \in files : f.path = path),
                                  !.files0 = files, !.metas0 = metas]
       IN  /\ dlLog' = Append(dlLog, e)
           /\ IF os_path_exists(path, files) THEN Return(c, "ok")
              ELSE IF url = <<>> THEN Return(c, "fail")
              ELSE /\ call' = c
                   /\ attempt' = 0
                   /\ pc' = "dl_fetch"
                   /\ UNCHANGED delay
    /\ page' = 1
    /\ total_pages' = 1
    /\ UNCHANGED <<cutoff_date, otherVars, fi, nrows, ri, pageFails, lastRow>>
    /\ UNCHANGED <<pdf_entries, di, outVars, diskVars>>

\* session.get(pdf_url), raise_for_status and the content check
DlFetch ==
    /\ pc = "dl_fetch"
    /\ LET c == [call EXCEPT !.fetches = @ + 1]
       IN  \/ \* requests.RequestException
              LET f == [c EXCEPT !.fails = @ + 1]
              IN  IF attempt = max_retries - 1
                  THEN Return(f, "fail")
                  ELSE /\ call' = [f EXCEPT !.sleeps = Append(@, BackoffDelay(attempt))]
                       /\ delay' = BackoffDelay(attempt)
                       /\ pc' = "dl_backoff"
                       /\ UNCHANGED attempt
           \/ \E content_type \in {"application/pdf", "text/html"} :
                LET g == [c EXCEPT !.okFetch = TRUE,
                                   !.mismatch = /\ content_type # "application/pdf"
                                                /\ Last(c.url) # ".pdf"]
                IN  IF IsPdfResponse(content_type, c.url)
                    THEN /\ call' = g
                         /\ pc' = "dl_write"
                         /\ UNCHANGED <<delay, attempt>>
                    ELSE Return(g, "fail")
    /\ UNCHANGED <<cutoff_date, otherVars, fi, scrapeVars, pdf_entries, di, dlLog>>
    /\ UNCHANGED <<outVars, diskVars>>

\* the backoff sleep ends and the for loop takes the next attempt
DlBackoff ==
    /\ pc = "dl_backoff"
    /\ delay' = 0
    /\ attempt' = attempt + 1
    /\ pc' = "dl_fetch"
    /\ UNCHANGED <<cutoff_date, otherVars, fi, scrapeVars, pdf_entries, di, call, dlLog>>
    /\ UNCHANGED <<outVars, diskVars>>

\* with open(file_path, 'wb') as f: f.write(response.content); when open raises
\* OSError (a name the file system refuses) the outer handler returns False
DlWrite ==
    /\ pc = "dl_write"
    /\ \/ /\ files' = Written(files, call.path, call.url)
          /\ pc' = "dl_meta"
          /\ UNCHANGED <<call, delay, attempt>>
       \/ /\ Return(call, "fail")
          /\ UNCHANGED files
    /\ UNCHANGED <<cutoff_date, otherVars, fi, scrapeVars, pdf_entries, di, dlLog>>
    /\ UNCHANGED <<outVars, metas>>

\* with open(metadata_path, 'w') as f: f.write(...); return True; when open
\* raises OSError (the name with '.meta' is longer than the file system takes)
\* the outer handler returns False
DlMeta ==
    /\ pc = "dl_meta"
    /\ \/ /\ metas' = Written(metas, call.path, call.url)
          /\ Return(call, "ok")
       \/ /\ Return(call, "fail")
          /\ UNCHANGED metas
    /\ UNCHANGED <<cutoff_date, otherVars, fi, scrapeVars, pdf_entries, di, dlLog>>
    /\ UNCHANGED <<outVars, files>>

\* time.sleep(2) between downloads, then the next entry
DlSleep ==
    /\ pc = "dl_sleep"
    /\ delay' = 0
    /\ di' = di + 1
    /\ call' = NoCall
    /\ pc' = "dl_loop"
    /\ UNCHANGED <<cutoff_date, otherVars, fi, scrapeVars, pdf_entries, attempt, dlLog>>
    /\ UNCHANGED <<outVars, diskVars>>

(* --------------------------- specification ---------------------------- *)

Next ==
    \/ StartFolder
    \/ FirstFetch
    \/ LoopTest
    \/ FetchPage
    \/ ErrSleep
    \/ ProcessRow
    \/ PageSleep
    \/ NextFolder
    \/ DlStart
    \/ DlFetch
    \/ DlBackoff
    \/ DlWrite
    \/ DlMeta
    \/ DlSleep

Spec == Init /\ [][Next]_vars

\* the interpreter keeps executing the run: a step that can be taken is taken
FairSpec == Spec /\ WF_vars(Next)

(* ====================== ms_graph.py: main ============================== *)

\* the most files Config.PDF_FOLDER holds when main() begins
MaxFiles == 3

\* os.getenv gives None for a variable that is not set
Unset == "<None>"

EnvValues == {Unset, "", "app"}

\* bool(v) of an environment value
Truthy(v) == v \notin {Unset, ""}

ConfigAny(e) == Truthy(e.APPLICATION_ID) \/ Truthy(e.CLIENT_SECRET)

\* all([Config.APPLICATION_ID, Config.CLIENT_SECRET])
ConfigValid(e) == Truthy(e.APPLICATION_ID) /\ Truthy(e.CLIENT_SECRET)

DigitChars == <<"0", "1", "2", "3", "4", "5", "6", "7", "8", "9">>

\* str(n) of a natural number, as its decimal digits
RECURSIVE Digits(_)
Digits(n) ==
    IF n < 10 THEN <<DigitChars[n + 1]>>
    ELSE Digits(n \div 10) \o <<DigitChars[(n % 10) + 1]>>

InvalidChars == {"<", ">", ":", "\"", "/", "\\", "|", "?", "*"}

\* PDFProcessor._sanitize_filename
sanitize_filename(filename) ==
    Strip([i \in DOMAIN filename |->
              IF filename[i] \in InvalidChars THEN "_" ELSE filename[i]])

\* str.lower of a file name
Lower(name) ==
    [i \in DOMAIN name |-> IF name[i] = ".PDF" THEN ".pdf" ELSE name[i]]

\* the client names of the roster
ClientNames == {<<"Bob">>, <<"A", "/", "B">>}

\* the files the PDF folder may hold when main() begins; client: the roster
\* name extract_client_name finds in the file's first page, <<>> when none
PdfFiles ==
    { [name |-> <<"scan1", ".pdf">>,          client |-> <<"Bob">>],
      [name |-> <<"scan2", ".pdf">>,          client |-> <<"Bob">>],
      [name |-> <<"scan3", ".PDF">>,          client |-> <<"A", "/", "B">>],
      [name |-> <<"Bob", ".pdf">>,            client |-> <<>>],
      [name |-> <<"Bob", "_", "1", ".pdf">>,  client |-> <<"Bob">>],
      [name |-> <<"A", "_", "B", ".pdf">>,    client |-> <<>>],
      [name |-> <<"notes", ".txt">>,          client |-> <<>>] }

InitialFolders == {S \in SUBSET PdfFiles : Cardinality(S) <= MaxFiles}

Names(folder) == {f.name : f \in folder}

FileNamed(folder, name) == CHOOSE f \in folder : f.name = name

\* new_main.py is not running
ScraperOff ==
    /\ pc = "off"
    /\ cutoff_date = None
    /\ fi = 1
    /\ page = 1
    /\ total_pages = 1
    /\ nrows = 0
    /\ ri = 0
    /\ pageFails = 0
    /\ delay = 0
    /\ pdf_entries = <<>>
    /\ seen_pdfs = {}
    /\ manifest = <<>>
    /\ files = {}
    /\ metas = {}
    /\ di = 1
    /\ attempt = 0
    /\ call = NoCall
    /\ dlLog = <<>>
    /\ lastRow = NoRow

GraphInit ==
    /\ ScraperOff
    /\ FnOff
    /\ g_pc = "main"
    /\ env \in [APPLICATION_ID : EnvValues, CLIENT_SECRET : EnvValues]
    /\ pdf_folder \in InitialFolders
    /\ folder0 = pdf_folder
    /\ backup_folder = {}
    /\ todo = {}
    /\ cur = NoFile
    /\ ren = NoRename
    /\ urls = {}
    /\ excel = {}
    /\ did = {}

\* main: OneDriveClient() runs _validate_config; its ValueError is logged and
\* raised again by main
NewClient ==
    /\ g_pc = "main"
    /\ g_pc' = IF ConfigValid(env) THEN "authenticate" ELSE "raised"
    /\ UNCHANGED <<env, pdf_folder, folder0, backup_folder, todo, cur, ren, urls,
                   excel, did>>
    /\ UNCHANGED <<scraperVars, fnVars>>

\* onedrive_client.authenticate(): the token is acquired, or the exception is
\* raised again
Authenticate ==
    /\ g_pc = "authenticate"
    /\ did' = did \cup {"authenticate"}
    /\ g_pc' \in {"new_processor", "raised"}
    /\ UNCHANGED <<env, pdf_folder, folder0, backup_folder, todo, cur, ren, urls,
                   excel>>
    /\ UNCHANGED <<scraperVars, fnVars>>

\* PDFProcessor(onedrive_client): the roster is read and the backup folder is
\* ensured; pd.read_excel may raise
NewProcessor ==
    /\ g_pc = "new_processor"
    /\ did' = did \cup {"read_excel"}
    /\ g_pc' \in {"listdir", "raised"}
    /\ UNCHANGED <<env, pdf_folder, folder0, backup_folder, todo, cur, ren, urls,
                   excel>>
    /\ UNCHANGED <<scraperVars, fnVars>>

\* process_pdfs begins: os.listdir(Config.PDF_FOLDER)
ListDir ==
    /\ g_pc = "listdir"
    /\ todo' = Names(pdf_folder)
    /\ urls' = {}
    /\ g_pc' = "loop"
    /\ UNCHANGED <<env, pdf_folder, folder0, backup_folder, cur, ren, excel, did>>
    /\ UNCHANGED <<scraperVars, fnVars>>

\* for filename in os.listdir(...): the next name in whatever order the
\* listing has; a name that does not end in .pdf is passed over; after the
\* last name, update_excel is called when urls is not empty
NextFile ==
    /\ g_pc = "loop"
    /\ IF todo = {}
       THEN /\ g_pc' = IF urls # {} THEN "update_excel" ELSE "done"
            /\ cur' = NoFile
            /\ ren' = NoRename
            /\ UNCHANGED todo
       ELSE \E filename \in todo :
              /\ todo' = todo \ {filename}
              /\ ren' = NoRename
              /\ IF EndsWith(Lower(filename), ".pdf")
                 THEN /\ cur' = [name |-> filename, client |-> <<>>]
                      /\ g_pc' = "extract"
                 ELSE /\ cur' = NoFile
                      /\ g_pc' = "loop"
    /\ UNCHANGED <<env, pdf_folder, folder0, backup_folder, urls, excel, did>>
    /\ UNCHANGED <<scraperVars, fnVars>>

\* client_name = self.extract_client_name(file_path): the roster name found in
\* the first page, or None (none found, or pdfplumber raised)
ExtractClientName ==
    /\ g_pc = "extract"
    /\ did' = did \cup {"read_pdf"}
    /\ \E client_name \in {FileNamed(pdf_folder, cur.name).client, <<>>} :
         IF client_name = <<>>
         THEN g_pc' = "loop" /\ UNCHANGED cur
         ELSE g_pc' = "backup" /\ cur' = [cur EXCEPT !.client = client_name]
    /\ UNCHANGED <<env, pdf_folder, folder0, backup_folder, todo, ren, urls, excel>>
    /\ UNCHANGED <<scraperVars, fnVars>>

\* shutil.copy2(old_path, backup_path): the copy replaces a file of that name
Copied(folder, file) ==
    {f \in folder : f.name # file.name} \cup {file}

\* rename_pdf up to the backup: shutil.copy2 copies the file under its old
\* name, or raises and rename_pdf returns None
BackupOriginal ==
    /\ g_pc = "backup"
    /\ ren' = [old |-> cur.name, client |-> cur.client, before |-> pdf_folder,
               result |-> <<>>]
    /\ \/ /\ backup_folder' = Copied(backup_folder, FileNamed(pdf_folder, cur.name))
          /\ did' = did \cup {"backup"}
          /\ g_pc' = "rename"
       \/ /\ g_pc' = "loop"
          /\ UNCHANGED <<backup_folder, did>>
    /\ UNCHANGED <<env, pdf_folder, folder0, todo, cur, urls, excel>>
    /\ UNCHANGED <<scraperVars, fnVars>>

\* f"{client}_{counter}.pdf"
Numbered(stem, counter) == stem \o <<"_">> \o Digits(counter) \o <<".pdf">>

\* while os.path.exists(new_path): ...; counter += 1
RECURSIVE FreeNumbered(_, _, _)
FreeNumbered(stem, counter, names) ==
    IF Numbered(stem, counter) \in names
    THEN FreeNumbered(stem, counter + 1, names)
    ELSE Numbered(stem, counter)

NewPathFixed(client_name, names) == sanitize_filename(client_name) \o <<".pdf">>

\* the new_path rename_pdf arrives at
NewPath(client_name, names) ==
    LET stem == sanitize_filename(client_name)
    IN  IF (stem \o <<".pdf">>) \in names
        THEN FreeNumbered(stem, 1, names)
        ELSE stem \o <<".pdf">>

\* os.rename(old_path, new_path): a file at new_path is replaced
Renamed(folder, old, new) ==
    {f \in folder : f.name \notin {old, new}}
        \cup {[FileNamed(folder, old) EXCEPT !.name = new]}

\* rename_pdf from the search of a free name on: os.rename moves the file and
\* new_path is returned, or it raises and rename_pdf returns None
RenamePdf ==
    /\ g_pc = "rename"
    /\ \/ LET new_path == NewPath(cur.client, Names(pdf_folder))
          IN  /\ pdf_folder' = Renamed(pdf_folder, cur.name, new_path)
              /\ ren' = [ren EXCEPT !.result = new_path]
              /\ did' = did \cup {"rename"}
              /\ g_pc' = "upload"
       \/ /\ g_pc' = "loop"
          /\ UNCHANGED <<pdf_folder, ren, did>>
    /\ UNCHANGED <<env, folder0, backup_folder, todo, cur, urls, excel>>
    /\ UNCHANGED <<scraperVars, fnVars>>

\* shareable_link = self.onedrive_client.upload_file(new_path): a link, None
\* after Config.MAX_RETRIES failed attempts, or an exception that is not a
\* RequestException and ends process_pdfs and main
UploadFile ==
    /\ g_pc = "upload"
    /\ did' = did \cup {"upload"}
    /\ \/ g_pc' = "loop" /\ urls' = urls \cup {cur.client}
       \/ g_pc' = "loop" /\ UNCHANGED urls
       \/ g_pc' = "raised" /\ UNCHANGED urls
    /\ UNCHANGED <<env, pdf_folder, folder0, backup_folder, todo, cur, ren, excel>>
    /\ UNCHANGED <<scraperVars, fnVars>>

\* self.update_excel(urls): the url cells are set and the file is saved, or
\* to_excel raises
UpdateExcel ==
    /\ g_pc = "update_excel"
    /\ \/ /\ excel' = urls
          /\ did' = did \cup {"to_excel"}
          /\ g_pc' = "done"
       \/ /\ g_pc' = "raised"
          /\ UNCHANGED <<excel, did>>
    /\ UNCHANGED <<env, pdf_folder, folder0, backup_folder, todo, cur, ren, urls>>
    /\ UNCHANGED <<scraperVars, fnVars>>

GraphNext ==
    \/ NewClient
    \/ Authenticate
    \/ NewProcessor
    \/ ListDir
    \/ NextFile
    \/ ExtractClientName
    \/ BackupOriginal
    \/ RenamePdf
    \/ UploadFile
    \/ UpdateExcel

GraphSpec == GraphInit /\ [][GraphNext]_vars

(* ================= functions applied on their own ====================== *)

\* the most parameters the query of a base URL has
MaxParams == 3

\* the highest page number asked of construct_paginated_url
MaxPageArg == 3

\* name=value pairs a query is made of; a value is the sequence of its
\* characters, <<>> the blank value of "ssid=" (or of a bare "ssid")
ParamPairs ==
    { <<"doListing", <<"yes">>>>, <<"sid", <<"1">>>>, <<"sid", <<"2">>>>,
      <<"ssid", <<>>>>, <<"start", <<"5">>>>, <<"bm", <<"x">>>> }

RECURSIVE SeqsUpTo(_, _)
SeqsUpTo(S, n) ==
    IF n = 0 THEN {<<>>}
    ELSE LET shorter == SeqsUpTo(S, n - 1)
         IN  shorter \cup {Append(q, x) : q \in shorter, x \in S}

\* the base URLs: scheme, netloc and path of the site's listing action, and a
\* query
BaseUrls ==
    [scheme : {"https"}, netloc : {"www.sebi.gov.in"},
     path : {"/sebiweb/home/HomeAction.do"},
     query : SeqsUpTo(ParamPairs, MaxParams)]

ItemsPerPage == {items_per_page, 25}

Keys(d) == {d[i][1] : i \in DOMAIN d}

\* d[key] = values of a dict kept as the sequence of its items: an existing key
\* keeps its place, a new key goes to the end
DictSet(d, key, values) ==
    IF key \in Keys(d)
    THEN [i \in DOMAIN d |-> IF d[i][1] = key THEN <<key, values>> ELSE d[i]]
    ELSE Append(d, <<key, values>>)

DictGet(d, key) == (CHOOSE i \in DOMAIN d : d[i][1] = key)

\* urllib.parse.parse_qs(query): keep_blank_values is False, so a pair with a
\* blank value is left out; the values of a repeated name are collected
RECURSIVE parse_qs(_, _)
parse_qs(query, d) ==
    IF query = <<>> THEN d
    ELSE LET name  == Head(query)[1]
             value == Head(query)[2]
         IN  IF value = <<>> THEN parse_qs(Tail(query), d)
             ELSE IF name \in Keys(d)
             THEN parse_qs(Tail(query),
                           DictSet(d, name, Append(d[DictGet(d, name)][2], value)))
             ELSE parse_qs(Tail(query), DictSet(d, name, <<value>>))

\* urlencode(query_params, doseq=True): one pair per value, in dict order
RECURSIVE urlencode(_)
urlencode(d) ==
    IF d = <<>> THEN <<>>
    ELSE [i \in DOMAIN Head(d)[2] |-> <<Head(d)[1], Head(d)[2][i]>>]
             \o urlencode(Tail(d))

construct_paginated_url(url, page_no, per_page) ==
    LET query_params == parse_qs(url.query, <<>>)
        with_start   == DictSet(query_params, "start",
                                <<Digits((page_no - 1) * per_page)>>)
        with_length  == DictSet(with_start, "length", <<Digits(per_page)>>)
        with_bm      == DictSet(with_length, "bm", <<<<"normal">>>>)
    IN  [scheme |-> url.scheme, netloc |-> url.netloc, path |-> url.path,
         query |-> urlencode(with_bm)]

FnInit ==
    /\ ScraperOff
    /\ GraphOff
    /\ FnOff

ApplyConstructPaginatedUrl ==
    \E url \in BaseUrls, page_no \in 1..MaxPageArg, per_page \in ItemsPerPage :
        /\ fn' = "construct_paginated_url"
        /\ arg' = [base_url |-> url, page |-> page_no, items_per_page |-> per_page]
        /\ out' = construct_paginated_url(url, page_no, per_page)
        /\ UNCHANGED <<scraperVars, graphVars>>

ApplyExtractPdfFromIframe ==
    \E p \in HtmlPages :
        /\ fn' = "extract_pdf_from_iframe"
        /\ arg' = p
        /\ out' = extract_pdf_from_iframe(p)
        /\ UNCHANGED <<scraperVars, graphVars>>

ApplyGetTotalPages ==
    \E soup \in Soups :
        /\ fn' = "get_total_pages"
        /\ arg' = soup
        /\ out' = get_total_pages(soup)
        /\ UNCHANGED <<scraperVars, graphVars>>

FnNext ==
    \/ ApplyConstructPaginatedUrl
    \/ ApplyExtractPdfFromIframe
    \/ ApplyGetTotalPages

FnSpec == FnInit /\ [][FnNext]_vars

(* ------------------------------ claims -------------------------------- *)

Urls(entries) == {entries[i].pdf_url : i \in 1..Len(entries)}

NoDupUrls(entries) ==
    \A i, j \in 1..Len(entries) : i # j => entries[i].pdf_url # entries[j].pdf_url

InSeq(entries, e) == \E i \in 1..Len(entries) : entries[i] = e

Count(entries, e) == Cardinality({i \in 1..Len(entries) : entries[i] = e})

IndexIn(entries, e) == CHOOSE i \in 1..Len(entries) : entries[i] = e

ScrapePcs == {"loop", "fetch", "err_sleep", "rows", "page_sleep"}
CallPcs   == {"dl_fetch", "dl_backoff", "dl_write", "dl_meta", "dl_sleep"}

Returned == pc = "dl_sleep"

\* C1: every run, whatever page fetches and downloads fail, scrapes every
\* configured folder and eventually reaches its terminal state.
C1_Terminates == <>(pc = "done")

\* C2: a listing page whose fetch fails is fetched again once; after a second
\* failure the loop gives the page up, so no page sees a third failed request.
C2_AtMostOneRetry == pageFails <= 2

\* C3: no two manifest rows carry the same document URL, no folder's download
\* list holds a URL twice or a URL of an earlier row, and the seen-set is the
\* set of the URLs written.
C3_NoDuplicateUrl ==
    /\ NoDupUrls(manifest)
    /\ NoDupUrls(pdf_entries)
    /\ \A i \in 1..Len(pdf_entries) : InSeq(manifest, pdf_entries[i])
    /\ seen_pdfs = Urls(manifest)

\* C3 witness: in the second folder a row led to the URL the manifest's only row,
\* written for the first folder, already carries, and nothing was written for it.
C3_Witness ==
    /\ fi = 2
    /\ pc \in {"rows", "page_sleep"}
    /\ lastRow.url # <<>>
    /\ Len(manifest) = 1
    /\ manifest[1].folder = FolderNames[1]
    /\ manifest[1].pdf_url = lastRow.url
    /\ pdf_entries = <<>>

\* C4: once the scrape of the next folder can begin, every row written to the
\* manifest for the folders before it has had download_pdf called for it exactly
\* once.
C4_EachEntryDownloadedOnce ==
    \A i \in 1..Len(manifest) :
        FolderIdx(manifest[i].folder) < fi => Count(dlLog, manifest[i]) = 1

\* the place of the run in (folder, phase, page, row) order
Phase ==
    CASE pc \in {"folder", "done"} -> 0
      [] pc = "first_fetch" -> 1
      [] pc \in ScrapePcs -> 2
      [] OTHER -> 3

Position ==
    <<fi, Phase, IF pc \in ScrapePcs THEN page ELSE 0, IF pc = "rows" THEN ri ELSE 0>>

LexLT(a, b) ==
    \E k \in 1..Len(a) : a[k] < b[k] /\ \A j \in 1..(k - 1) : a[j] = b[j]

LexLE(a, b) == a = b \/ LexLT(a, b)

\* C5: the run moves through (folder, page, row) in ascending order only; a
\* manifest row is written at the end of the manifest and of the folder's list,
\* for the row the run is at, and the run then moves past that row; download_pdf
\* is called for the folder's list in index order; so the manifest is ordered by
\* folder, page and row, and the calls follow the manifest's order.
C5_OrderPreserved ==
    [][ /\ LexLE(Position, Position')
        /\ manifest' # manifest =>
             /\ pc = "rows"
             /\ manifest' = Append(manifest, Last(manifest'))
             /\ pdf_entries' = Append(pdf_entries, Last(manifest'))
             /\ Last(manifest').folder = FolderNames[fi]
             /\ LexLT(Position, Position')
        /\ dlLog' # dlLog =>
             /\ pc = "dl_loop"
             /\ di <= Len(pdf_entries)
             /\ dlLog' = Append(dlLog, pdf_entries[di])
        /\ pc \in CallPcs \cup {"dl_loop"} /\ pc' \in CallPcs \cup {"dl_loop"} =>
             /\ pdf_entries' = pdf_entries
             /\ di' >= di
             /\ (dlLog' # dlLog => pc' # "dl_loop")
             /\ (pc = "dl_sleep" => di' = di + 1)
        /\ \A i, j \in 1..Len(manifest') :
             i < j => FolderIdx(manifest'[i].folder) <= FolderIdx(manifest'[j].folder)
        /\ \A i, j \in 1..Len(dlLog') :
             i < j => /\ InSeq(manifest', dlLog'[i])
                      /\ InSeq(manifest', dlLog'[j])
                      /\ IndexIn(manifest', dlLog'[i]) < IndexIn(manifest', dlLog'[j])
      ]_vars

\* C5 witness: two rows of one folder were written and download_pdf was called for
\* both.
C5_Witness ==
    /\ Len(manifest) = 2
    /\ Len(dlLog) = 2
    /\ manifest[1].folder = manifest[2].folder

\* C6 (as amended): one call makes at most 3 fetches; it waits 1 s after the first
\* failed fetch and 2 s after the second and nothing after the third, which ends
\* the call with failure; a fetch that succeeds is the call's last; and a call
\* that fetched returns success exactly when the response passed the content
\* check and the file and its sidecar were written.
C6_RetryBackoff ==
    /\ call.fetches <= 3
    /\ call.fetches = call.fails + (IF call.okFetch THEN 1 ELSE 0)
    /\ call.sleeps = SubSeq(<<1, 2>>, 1, Min(call.fails, 2))
    /\ pc = "dl_backoff" => delay = Last(call.sleeps) /\ Len(call.sleeps) = call.fails
    /\ call.fails = 3 => Returned /\ call.result = "fail"
    /\ call.okFetch => pc \in {"dl_write", "dl_meta", "dl_sleep"}
    /\ call.result # "none" => Returned
    /\ Returned /\ call.fetches > 0 =>
         (call.result = "ok" <=>
             /\ call.okFetch
             /\ ~call.mismatch
             /\ [path |-> call.path, src |-> call.url] \in files
             /\ [path |-> call.path, src |-> call.url] \in metas)

\* C6 witness: two fetches failed, the third succeeded, the call returned success.
C6_Witness ==
    /\ Returned
    /\ call.fails = 2
    /\ call.okFetch
    /\ call.result = "ok"
    /\ call.sleeps = <<1, 2>>

\* C6 as stated: at most 3 fetches with waits of 1 s and 2 s, and whenever a fetch
\* of the call succeeds the file is written and the call returns success.
C6_FetchSuccessWrites ==
    /\ call.fetches <= 3
    /\ call.sleeps = SubSeq(<<1, 2>>, 1, Min(call.fails, 2))
    /\ Returned /\ call.okFetch =>
         /\ call.result = "ok"
         /\ os_path_exists(call.path, files)

\* C7: a call whose target path exists returns success, makes no request and
\* leaves the files and the sidecars as they were.
C7_ExistingFileSkipped ==
    call.existed =>
        /\ Returned
        /\ call.result = "ok"
        /\ call.fetches = 0
        /\ files = call.files0
        /\ metas = call.metas0

\* C7 witness: download_pdf was called for a path that exists and has returned.
C7_Witness == Returned /\ call.existed

\* C8: when a fetch succeeds but the content type is not a PDF's and the URL does
\* not end in .pdf, the call returns failure, writes no file and no sidecar, and
\* fetches no more.
C8_ContentMismatchFails ==
    call.mismatch =>
        /\ Returned
        /\ call.result = "fail"
        /\ files = call.files0
        /\ metas = call.metas0
        /\ call.fetches = call.fails + 1

\* C8 witness: a call met such a response, after a failed fetch.
C8_Witness == Returned /\ call.mismatch /\ call.fails = 1

\* C9: after a call returns, a file it created has its sidecar and the call
\* returned success, and a call that returned failure created no file.
C9_FileHasSidecar ==
    Returned =>
        /\ \A f \in files \ call.files0 :
             /\ call.result = "ok"
             /\ \E m \in metas : m.path = f.path
        /\ call.result = "fail" => files = call.files0

\* the date filter's rule, from the parsed date
Admits(date_str) ==
    \/ cutoff_date = None
    \/ parse_date(date_str) = None
    \/ parse_date(date_str) >= cutoff_date

\* C10: the filter passes a row exactly when no cutoff is set, its date does not
\* parse, or its date is at or after the cutoff; no manifest row, seen-set entry,
\* download-list entry or download call comes from a row the rule does not admit.
C10_DateFilter ==
    /\ lastRow.date # <<>> => (lastRow.pass <=> Admits(lastRow.date))
    /\ ~lastRow.pass => lastRow.url = <<>>
    /\ \A i \in 1..Len(manifest) : Admits(manifest[i].issue_date)
    /\ \A i \in 1..Len(pdf_entries) : Admits(pdf_entries[i].issue_date)
    /\ \A i \in 1..Len(dlLog) : Admits(dlLog[i].issue_date)
    /\ seen_pdfs \subseteq Urls(manifest)

\* C10 witness: with the cutoff set, a row dated before it was dropped while the
\* manifest holds a row dated on the cutoff and a row whose date does not parse.
C10_Witness ==
    /\ cutoff_date = CutoffInstant
    /\ lastRow.date = DateOld
    /\ ~lastRow.pass
    /\ \E i, j \in 1..Len(manifest) :
         /\ manifest[i].issue_date = DateCut
         /\ manifest[j].issue_date = DateJunk

\* the path download_pdf computes for an entry
PathOf(e) == FilePath(e.folder, FileName(e.pdf_name, e.issue_date))

\* C11: one file per accepted entry: two entries of one folder with distinct
\* document URLs whose downloads both succeeded have two distinct files, also
\* when their names and dates are equal or differ only in characters the
\* sanitization removes. Stated at the return of a call that reports success:
\* no earlier entry of the folder whose own download is on disk has the path
\* of this call's entry.
C11_OneFilePerEntry ==
    (Returned /\ call.result = "ok") =>
        \A i \in 1..(di - 1) :
            (/\ pdf_entries[i].pdf_url # pdf_entries[di].pdf_url
             /\ [path |-> PathOf(pdf_entries[i]),
                 src |-> fix_pdf_url(pdf_entries[i].pdf_url)] \in files)
            => PathOf(pdf_entries[i]) # PathOf(pdf_entries[di])

\* a credential that is not set, or set to the empty string
Missing(v) == v = Unset \/ v = ""

\* C13: with the application id or the client secret missing, main() ends with
\* the error before any work: no authentication is attempted, no PDF is read,
\* backed up, renamed or uploaded, and the roster spreadsheet is not written.
C13_NoWorkWithoutCredentials ==
    (Missing(env.APPLICATION_ID) \/ Missing(env.CLIENT_SECRET)) =>
        /\ g_pc \in {"main", "raised"}
        /\ did = {}
        /\ pdf_folder = folder0
        /\ backup_folder = {}
        /\ excel = {}

\* C13 witness: main() has raised with the client secret not set, the
\* application id set and PDFs waiting in the folder
C13_Witness ==
    /\ g_pc = "raised"
    /\ env.APPLICATION_ID = "app"
    /\ env.CLIENT_SECRET = Unset
    /\ \E f \in folder0 : f.client # <<>>

\* '<client>_k.pdf'
ClientNumbered(client, k) ==
    sanitize_filename(client) \o <<"_">> \o Digits(k) \o <<".pdf">>

\* the destination the claim gives: '<client>.pdf' when that name is free,
\* else '<client>_k.pdf' for the smallest k >= 1 whose name is free
Destination(client, names) ==
    LET plain == sanitize_filename(client) \o <<".pdf">>
        k == CHOOSE n \in 1..(Cardinality(names) + 1) :
                 /\ ClientNumbered(client, n) \notin names
                 /\ \A j \in 1..(n - 1) : ClientNumbered(client, j) \in names
    IN  IF plain \notin names THEN plain ELSE ClientNumbered(client, k)

\* C17: renaming a PDF to its client name never overwrites or deletes another
\* file of the PDF folder: the destination is '<client>.pdf' if that name is
\* free, else '<client>_k.pdf' for the smallest free k >= 1; every other file
\* keeps its name and content, the renamed file keeps its content, and a copy
\* under the old name is in the backup folder before the folder changes.
C17_RenameKeepsOtherFiles ==
    LET original == FileNamed(ren.before, ren.old)
    IN  /\ g_pc = "rename" =>
              /\ original \in backup_folder
              /\ pdf_folder = ren.before
        /\ ren.result # <<>> =>
              /\ ren.result = Destination(ren.client, Names(ren.before))
              /\ ren.result \notin Names(ren.before)
              /\ \A f \in ren.before : f.name # ren.old => f \in pdf_folder
              /\ [original EXCEPT !.name = ren.result] \in pdf_folder
              /\ ren.old \notin Names(pdf_folder)
              /\ Cardinality(pdf_folder) = Cardinality(ren.before)
              /\ original \in backup_folder

\* C17 witness: a PDF of client Bob was renamed to Bob_2.pdf, Bob.pdf and
\* Bob_1.pdf being taken
C17_Witness ==
    /\ g_pc = "upload"
    /\ ren.result = <<"Bob", "_", "2", ".pdf">>
    /\ {<<"Bob", ".pdf">>, <<"Bob", "_", "1", ".pdf">>} \subseteq Names(ren.before)

\* the values a query gives a parameter name, in order
ValuesOf(query, name) ==
    LET named == SelectSeq(query, LAMBDA pr : pr[1] = name)
    IN  [i \in DOMAIN named |-> named[i][2]]

PagingNames == {"start", "length", "bm"}

\* C12: the paginated URL's query has start = (page-1)*items_per_page,
\* length = items_per_page and bm=normal, each once, and every other parameter
\* of the base URL is in the result with its name and value(s), none added and
\* none lost.
C12_PaginatedQuery ==
    fn = "construct_paginated_url" =>
        /\ ValuesOf(out.query, "start")
               = <<Digits((arg.page - 1) * arg.items_per_page)>>
        /\ ValuesOf(out.query, "length") = <<Digits(arg.items_per_page)>>
        /\ ValuesOf(out.query, "bm") = <<<<"normal">>>>
        /\ \A name \in (Keys(arg.base_url.query) \cup Keys(out.query)) \ PagingNames :
               ValuesOf(out.query, name) = ValuesOf(arg.base_url.query, name)

\* what method (a) yields: the frame's source after file=, else the source
\* itself when it ends in .pdf; <<>> when it yields no document URL
MethodA(p) ==
    IF p.iframe = <<>> THEN <<>>
    ELSE IF LastIndexOf(p.iframe, "file=") > 0
         THEN fix_pdf_url(AfterLast(p.iframe, "file="))
    ELSE IF EndsWith(p.iframe, ".pdf") THEN fix_pdf_url(p.iframe)
    ELSE <<>>

\* what method (b) yields: the first in-page anchor whose href ends in .pdf
MethodB(p) ==
    IF \E i \in DOMAIN p.anchors : EndsWith(p.anchors[i], ".pdf")
    THEN fix_pdf_url(p.anchors[CHOOSE i \in DOMAIN p.anchors :
                         /\ EndsWith(p.anchors[i], ".pdf")
                         /\ \A j \in 1..(i - 1) : ~EndsWith(p.anchors[j], ".pdf")])
    ELSE <<>>

\* what method (c) yields: the first attachment-store path of the page text
MethodC(p) == IF p.matches # <<>> THEN fix_pdf_url(p.matches[1]) ELSE <<>>

\* C14: for an intermediate page the result is that of the first of the methods
\* (a) frame source, (b) first .pdf anchor, (c) attachment-store pattern that
\* yields a document URL, and null only when none of them yields one; a frame
\* that yields nothing does not keep (b) and (c) from being tried.
C14_FirstMethodWins ==
    (fn = "extract_pdf_from_iframe" /\ ~arg.raises) =>
        out = IF MethodA(arg) # <<>> THEN MethodA(arg)
              ELSE IF MethodB(arg) # <<>> THEN MethodB(arg)
              ELSE MethodC(arg)

LinkIndexes(links) == {links[i] : i \in DOMAIN links} \ {None}

MaxOf(S) == CHOOSE m \in S : \A x \in S : x <= m

\* C16: with N found in the summary the page count is ceil(N / page size), the
\* page size being the one construct_paginated_url uses by default, so that
\* the offsets of pages 1..total cover entries 0..N-1 and no further page is
\* needed; without the summary it is the maximum page index of the pagination
\* links; with neither it is 1.
C16_TotalPages ==
    fn = "get_total_pages" =>
        IF arg.entries # None
        THEN /\ out * items_per_page >= arg.entries
             /\ (out - 1) * items_per_page < arg.entries
        ELSE IF arg.paginate /\ LinkIndexes(arg.links) # {}
        THEN out = MaxOf(LinkIndexes(arg.links))
        ELSE out = 1

\* C15: a fetched listing page either failed, or has at least one data row to
\* go through, or (no table, or no row after the header) ends the folder's
\* pagination at once: the entries accepted so far are returned unchanged to
\* the download loop, no page is requested for the folder from then on, and the
\* folder is left only when download_pdf was called for each of them.
C15_ExhaustionStops ==
    [][ /\ pc = "fetch" =>
             /\ pc' \in {"err_sleep", "rows", "dl_loop"}
             /\ (pc' = "rows" => nrows' >= 1 /\ page' = page)
             /\ (pc' = "dl_loop" =>
                    /\ pdf_entries' = pdf_entries
                    /\ manifest' = manifest
                    /\ fi' = fi
                    /\ di' = 1)
        /\ pc \in CallPcs \cup {"dl_loop"} =>
             /\ pc' \in CallPcs \cup {"dl_loop", "folder"}
             /\ (pc' = "folder" =>
                    /\ fi' = fi + 1
                    /\ \A i \in 1..Len(pdf_entries) : InSeq(dlLog, pdf_entries[i]))
      ]_vars

\* C15 witness: scrape_folder_page has returned from page 2 or later, that
\* page being within total_pages and having no table or no row, with an entry
\* accepted from an earlier page
C15_Witness ==
    /\ pc = "dl_loop"
    /\ di = 1
    /\ page >= 2
    /\ page <= total_pages
    /\ Len(pdf_entries) >= 1

============================================================================
